---- MODULE Spec2Model ----
(***************************************************************************)
(* Model of pdfminer/high_level.py: the two extraction entry points        *)
(* extract_text_to_fp (lines 28-101) and extract_text (lines 104-138).     *)
(* One run of one entry point is one behaviour; pc is the position in the  *)
(* function body, named after the source line about to be executed.        *)
(* The interpreter is Python 3 (six.PY3 holds, six.PY2 does not).          *)
(***************************************************************************)
EXTENDS Integers, Sequences, FiniteSets, TLC

VARIABLES cfg, doc, pc, err, root_level, laparams, imagewriter, rsrcmgr,
          device, outfp, interpreter, gen, page, page_rotate, calls,
          fp, output_string, result, earlier, entry_level

vars == <<cfg, doc, pc, err, root_level, laparams, imagewriter, rsrcmgr,
          device, outfp, interpreter, gen, page, page_rotate, calls,
          fp, output_string, result, earlier, entry_level>>

(* ------------------------------ bounds --------------------------------- *)

MaxPageCount == 3

MaxPagesCap == 2

(* --------------------------- input domains ----------------------------- *)

FullTurn == 360

PageOrdinals == 0..MaxPageCount

ValidOutputTypes == {"text", "xml", "html", "tag"}

OutputTypes == ValidOutputTypes \cup {"pdf"}

\* **kwargs: '_py2_no_more_posargs' is absent, passed as None, or passed as True
LegacyKwargs == {"absent", "None", "True"}

NoPageNumbers == [given |-> FALSE, set |-> {}]

PageNumberFilters ==
    {NoPageNumbers} \cup {[given |-> TRUE, set |-> s] : s \in SUBSET PageOrdinals}

RotationDeltas == {-450, -90, 0, 90, 360, 725}

IntrinsicRotations == {0, 90, 270, 359}

Documents(rots) ==
    UNION {[pageCount : {n}, rotate : [0..(n - 1) -> rots]] : n \in 0..MaxPageCount}

FpConfigs(legacies, debugs, types, outs, las, dirs, dcs, mps, flts, rots) ==
    [entry : {"extract_text_to_fp"}, legacy : legacies, debug : debugs,
     output_type : types, outfp : outs, laparams : las, output_dir : dirs,
     disable_caching : dcs, caching : {TRUE}, maxpages : mps,
     page_numbers : flts, rotation : rots]

TextConfigs(las, cs, mps, flts) ==
    [entry : {"extract_text"}, legacy : {"absent"}, debug : {FALSE},
     output_type : {"text"}, outfp : {"file"}, laparams : las,
     output_dir : {"None"}, disable_caching : {FALSE}, caching : cs,
     maxpages : mps, page_numbers : flts, rotation : {0}]

(* ----------------------- values of the locals -------------------------- *)

UnboundRsrcmgr == [bound |-> FALSE, caching |-> FALSE]

UnboundDevice ==
    [bound |-> FALSE, kind |-> "unbound", outfp |-> "unbound",
     codec |-> "unbound", laparams |-> "unbound", imagewriter |-> "unbound",
     stripcontrol |-> "unbound", scale |-> "unbound", layoutmode |-> "unbound"]

UnboundInterpreter == [bound |-> FALSE, caching |-> FALSE, device |-> "unbound"]

UnboundGen ==
    [bound |-> FALSE, started |-> FALSE, pos |-> 0, yielded |-> 0,
     produced |-> <<>>, pagenos |-> NoPageNumbers, maxpages |-> 0,
     caching |-> FALSE, check_extractable |-> FALSE, raised |-> "none"]

NoPage == -1

StopIteration == -1

Ev(op, p, r) == [op |-> op, page |-> p, rotate |-> r]

\* variant of PyMod: the remainder truncates toward zero (sign of the dividend)
PyMod_truncating(a, b) ==
    IF a >= 0 THEN a % b ELSE 0 - ((0 - a) % b)

(* Python's % : the result takes the sign of the divisor. *)
PyMod(a, b) == a - b * (a \div b)

(* TextConverter.__init__(..., imagewriter=None): an argument left out is None *)
WithDefault(v) == IF v = "not_passed" THEN "None" ELSE v

(* PDFResourceManager.__init__(self, caching=True) *)
PDFResourceManagerDefaultCaching == TRUE

(* ---------------- Document Source: PDFPage.get_pages ------------------- *)

GenCandidates(g) ==
    {o \in g.pos..(doc.pageCount - 1) : (~g.pagenos.given) \/ o \in g.pagenos.set}

GenNextOrdinal(g) ==
    IF g.maxpages > 0 /\ g.yielded >= g.maxpages THEN StopIteration
    ELSE IF GenCandidates(g) = {} THEN StopIteration
    ELSE CHOOSE o \in GenCandidates(g) : \A q \in GenCandidates(g) : o <= q

GenAdvance(g, o) ==
    [g EXCEPT !.started = TRUE, !.pos = o + 1, !.yielded = g.yielded + 1,
              !.produced = Append(g.produced, o)]

GenErrors(g) ==
    IF g.started THEN {"PDFSyntaxError"}
    ELSE {"PDFPasswordIncorrect", "PDFTextExtractionNotAllowed", "PDFSyntaxError"}

(* ------------------------------- Init ---------------------------------- *)

InitWith(configs, documents) ==
    /\ cfg \in configs
    /\ doc \in documents
    /\ pc = IF cfg.entry = "extract_text_to_fp" THEN "L54" ELSE "T119"
    /\ err = "none"
    /\ root_level = "WARNING"
    /\ laparams = cfg.laparams
    /\ imagewriter = "unbound"
    /\ rsrcmgr = UnboundRsrcmgr
    /\ device = UnboundDevice
    /\ outfp = cfg.outfp
    /\ interpreter = UnboundInterpreter
    /\ gen = UnboundGen
    /\ page = NoPage
    /\ page_rotate = doc.rotate
    /\ calls = <<>>
    /\ fp = "unopened"
    /\ output_string = "unopened"
    /\ result = "none"
    /\ earlier = [done |-> FALSE, cfg |-> cfg, pc |-> "none", err |-> "none",
                  rsrcmgr |-> UnboundRsrcmgr, device |-> UnboundDevice,
                  gen |-> UnboundGen, calls |-> <<>>]
    /\ entry_level = "WARNING"

Init ==
    InitWith(FpConfigs(LegacyKwargs, BOOLEAN, OutputTypes, {"file", "sys.stdout"},
                       {"None", "LAParams"}, {"None", "dir"}, BOOLEAN,
                       {0}, {NoPageNumbers}, {0})
               \cup TextConfigs({"None", "LAParams"}, BOOLEAN, {0}, {NoPageNumbers}),
             Documents({0}))

InitPages ==
    InitWith(FpConfigs({"absent"}, {FALSE}, {"text"}, {"file"}, {"None"}, {"None"},
                       {FALSE}, 0..MaxPagesCap, PageNumberFilters, {0})
               \cup TextConfigs({"None"}, {TRUE}, 0..MaxPagesCap, PageNumberFilters),
             Documents({0}))

InitRotate ==
    InitWith(FpConfigs({"absent"}, {FALSE}, {"text"}, {"file"}, {"None"}, {"None"},
                       {FALSE}, {0}, {NoPageNumbers}, RotationDeltas)
               \cup TextConfigs({"None"}, {TRUE}, {0}, {NoPageNumbers}),
             Documents(IntrinsicRotations))

\* the inputs of two calls made one after the other on the same document
PairConfigs ==
    FpConfigs({"absent"}, BOOLEAN, {"text", "tag"}, {"file"},
              {"None", "LAParams()", "LAParams"}, {"None"}, BOOLEAN,
              {0}, {NoPageNumbers}, {0})
      \cup TextConfigs({"None", "LAParams()", "LAParams"}, BOOLEAN, {0}, {NoPageNumbers})

InitPair == InitWith(PairConfigs, Documents({0}))

\* the first call has ended and the caller makes a second one on the same
\* document: the locals are fresh, the root logger keeps its level, and what
\* the first call did is kept in earlier
NewCall ==
    /\ pc \in {"returned", "raised"}
    /\ ~earlier.done
    /\ earlier' = [done |-> TRUE, cfg |-> cfg, pc |-> pc, err |-> err,
                   rsrcmgr |-> rsrcmgr, device |-> device, gen |-> gen,
                   calls |-> calls]
    /\ cfg' \in PairConfigs
    /\ doc' = doc
    /\ pc' = IF cfg'.entry = "extract_text_to_fp" THEN "L54" ELSE "T119"
    /\ err' = "none"
    /\ root_level' = root_level
    /\ entry_level' = root_level
    /\ laparams' = cfg'.laparams
    /\ imagewriter' = "unbound"
    /\ rsrcmgr' = UnboundRsrcmgr
    /\ device' = UnboundDevice
    /\ outfp' = cfg'.outfp
    /\ interpreter' = UnboundInterpreter
    /\ gen' = UnboundGen
    /\ page' = NoPage
    /\ page_rotate' = doc.rotate
    /\ calls' = <<>>
    /\ fp' = "unopened"
    /\ output_string' = "unopened"
    /\ result' = "none"

(* ------------------- extract_text_to_fp (lines 28-101) ----------------- *)

Raise(e) == pc' = "raised" /\ err' = e

\* variant of LegacyKwargPresent: the value of the keyword is tested, not its presence
LegacyKwargPresent_byValue(kw) == kw \notin {"absent", "None"}

\* line 54: '_py2_no_more_posargs' in kwargs is not None, a chained comparison:
\* ('_py2_no_more_posargs' in kwargs) and (kwargs is not None); kwargs is a dict
LegacyKwargPresent(kw) == (kw # "absent") /\ TRUE

\* lines 54-59
CheckLegacyKwarg ==
    /\ pc = "L54"
    /\ IF LegacyKwargPresent(cfg.legacy) THEN Raise("DeprecationWarning")
       ELSE pc' = "L61" /\ err' = err
    /\ UNCHANGED <<earlier, entry_level, cfg, doc, root_level, laparams, imagewriter, rsrcmgr, device,
                   outfp, interpreter, gen, page, page_rotate, calls, fp,
                   output_string, result>>

\* lines 61-62
SetDebugLevel ==
    /\ pc = "L61"
    /\ root_level' = IF cfg.debug THEN "DEBUG" ELSE root_level
    /\ pc' = "L67"
    /\ UNCHANGED <<earlier, entry_level, cfg, doc, err, laparams, imagewriter, rsrcmgr, device, outfp,
                   interpreter, gen, page, page_rotate, calls, fp,
                   output_string, result>>

\* lines 67-69
MakeImageWriter ==
    /\ pc = "L67"
    /\ IF cfg.output_dir # "None"
       THEN /\ imagewriter' = "ImageWriter"
            /\ calls' = Append(calls, Ev("ImageWriter", NoPage, 0))
       ELSE /\ imagewriter' = "None"
            /\ calls' = calls
    /\ pc' = "L71"
    /\ UNCHANGED <<earlier, entry_level, cfg, doc, err, root_level, laparams, rsrcmgr, device, outfp,
                   interpreter, gen, page, page_rotate, fp, output_string, result>>

\* line 71
MakeResourceManager ==
    /\ pc = "L71"
    /\ rsrcmgr' = [bound |-> TRUE, caching |-> ~cfg.disable_caching]
    /\ calls' = Append(calls, Ev("PDFResourceManager", NoPage, 0))
    /\ pc' = "L73"
    /\ UNCHANGED <<earlier, entry_level, cfg, doc, err, root_level, laparams, imagewriter, device, outfp,
                   interpreter, gen, page, page_rotate, fp, output_string, result>>

\* lines 77-78
SwappedOutfp(o) == IF o = "sys.stdout" THEN "sys.stdout.buffer" ELSE o

\* lines 74-75
TextDevice ==
    [bound |-> TRUE, kind |-> "TextConverter", outfp |-> outfp,
     codec |-> "codec", laparams |-> laparams, imagewriter |-> imagewriter,
     stripcontrol |-> "not_passed", scale |-> "not_passed",
     layoutmode |-> "not_passed"]

\* lines 81-83
XMLDevice ==
    [bound |-> TRUE, kind |-> "XMLConverter", outfp |-> SwappedOutfp(outfp),
     codec |-> "codec", laparams |-> laparams, imagewriter |-> imagewriter,
     stripcontrol |-> "strip_control", scale |-> "not_passed",
     layoutmode |-> "not_passed"]

\* variant of HTMLDevice: the image writer is not handed to the HTML device
HTMLDevice_noImagewriter ==
    [bound |-> TRUE, kind |-> "HTMLConverter", outfp |-> SwappedOutfp(outfp),
     codec |-> "codec", laparams |-> laparams, imagewriter |-> "not_passed",
     stripcontrol |-> "not_passed", scale |-> "scale",
     layoutmode |-> "layoutmode"]

\* variant of HTMLDevice: strip_control is handed to the HTML device as well
HTMLDevice_withStripcontrol ==
    [bound |-> TRUE, kind |-> "HTMLConverter", outfp |-> SwappedOutfp(outfp),
     codec |-> "codec", laparams |-> laparams, imagewriter |-> imagewriter,
     stripcontrol |-> "strip_control", scale |-> "scale",
     layoutmode |-> "layoutmode"]

\* lines 85-87
HTMLDevice ==
    [bound |-> TRUE, kind |-> "HTMLConverter", outfp |-> SwappedOutfp(outfp),
     codec |-> "codec", laparams |-> laparams, imagewriter |-> imagewriter,
     stripcontrol |-> "not_passed", scale |-> "scale",
     layoutmode |-> "layoutmode"]

\* variant of TagDevice: the tag device is given the layout parameters like the others
TagDevice_withLaparams ==
    [bound |-> TRUE, kind |-> "TagExtractor", outfp |-> SwappedOutfp(outfp),
     codec |-> "codec", laparams |-> laparams,
     imagewriter |-> "not_passed", stripcontrol |-> "not_passed",
     scale |-> "not_passed", layoutmode |-> "not_passed"]

\* line 89
TagDevice ==
    [bound |-> TRUE, kind |-> "TagExtractor", outfp |-> SwappedOutfp(outfp),
     codec |-> "codec", laparams |-> "not_passed",
     imagewriter |-> "not_passed", stripcontrol |-> "not_passed",
     scale |-> "not_passed", layoutmode |-> "not_passed"]

\* variant of SelectedDevice: the chain ends in an else branch that falls back to text
SelectedDevice_defaultsToText ==
    IF cfg.output_type = "xml" THEN XMLDevice
    ELSE IF cfg.output_type = "html" THEN HTMLDevice
    ELSE IF cfg.output_type = "tag" THEN TagDevice
    ELSE TextDevice

\* lines 73-89
SelectedDevice ==
    IF cfg.output_type = "text" THEN TextDevice
    ELSE IF cfg.output_type = "xml" THEN XMLDevice
    ELSE IF cfg.output_type = "html" THEN HTMLDevice
    ELSE IF cfg.output_type = "tag" THEN TagDevice
    ELSE device

\* lines 73-89
SelectDevice ==
    /\ pc = "L73"
    /\ device' = SelectedDevice
    /\ outfp' = SwappedOutfp(outfp)
    /\ calls' = IF SelectedDevice.bound
                THEN Append(calls, Ev(SelectedDevice.kind, NoPage, 0))
                ELSE calls
    /\ pc' = "L91"
    /\ UNCHANGED <<earlier, entry_level, cfg, doc, err, root_level, laparams, imagewriter, rsrcmgr,
                   interpreter, gen, page, page_rotate, fp, output_string, result>>

\* line 91
MakeInterpreter ==
    /\ pc = "L91"
    /\ IF device.bound
       THEN /\ interpreter' = [bound |-> TRUE, caching |-> rsrcmgr.caching,
                               device |-> device.kind]
            /\ calls' = Append(calls, Ev("PDFPageInterpreter", NoPage, 0))
            /\ pc' = "L92"
            /\ err' = err
       ELSE /\ Raise("UnboundLocalError")
            /\ UNCHANGED <<interpreter, calls>>
    /\ UNCHANGED <<earlier, entry_level, cfg, doc, root_level, laparams, imagewriter, rsrcmgr, device,
                   outfp, gen, page, page_rotate, fp, output_string, result>>

\* variant of GetPages: the maxpages keyword is not passed on (default 0)
GetPages_dropsMaxpages ==
    /\ pc = "L92"
    /\ gen' = [UnboundGen EXCEPT !.bound = TRUE,
                                 !.pagenos = cfg.page_numbers,
                                 !.maxpages = 0,
                                 !.caching = ~cfg.disable_caching,
                                 !.check_extractable = TRUE]
    /\ calls' = Append(calls, Ev("get_pages", NoPage, 0))
    /\ pc' = "L92_next"
    /\ UNCHANGED <<earlier, entry_level, cfg, doc, err, root_level, laparams, imagewriter, rsrcmgr,
                   device, outfp, interpreter, page, page_rotate, fp,
                   output_string, result>>

\* lines 92-97
GetPages ==
    /\ pc = "L92"
    /\ gen' = [UnboundGen EXCEPT !.bound = TRUE,
                                 !.pagenos = cfg.page_numbers,
                                 !.maxpages = cfg.maxpages,
                                 !.caching = ~cfg.disable_caching,
                                 !.check_extractable = TRUE]
    /\ calls' = Append(calls, Ev("get_pages", NoPage, 0))
    /\ pc' = "L92_next"
    /\ UNCHANGED <<earlier, entry_level, cfg, doc, err, root_level, laparams, imagewriter, rsrcmgr,
                   device, outfp, interpreter, page, page_rotate, fp,
                   output_string, result>>

\* variant of ForNextPage: an error of the Document Source is caught and the run goes on to close
ForNextPage_swallowsError ==
    /\ pc = "L92_next"
    /\ \/ /\ \E e \in GenErrors(gen) :
                 pc' = "L101" /\ err' = err /\ gen' = [gen EXCEPT !.raised = e]
          /\ page' = page
       \/ /\ err' = err
          /\ IF GenNextOrdinal(gen) = StopIteration
             THEN /\ pc' = "L101"
                  /\ gen' = [gen EXCEPT !.started = TRUE]
                  /\ page' = page
             ELSE /\ pc' = "L98"
                  /\ gen' = GenAdvance(gen, GenNextOrdinal(gen))
                  /\ page' = GenNextOrdinal(gen)
    /\ UNCHANGED <<earlier, entry_level, cfg, doc, root_level, laparams, imagewriter, rsrcmgr, device,
                   outfp, interpreter, page_rotate, calls, fp, output_string,
                   result>>

\* line 92: the for statement asks the generator for its next page
ForNextPage ==
    /\ pc = "L92_next"
    /\ \/ /\ \E e \in GenErrors(gen) :
                 Raise(e) /\ gen' = [gen EXCEPT !.raised = e]
          /\ page' = page
       \/ /\ err' = err
          /\ IF GenNextOrdinal(gen) = StopIteration
             THEN /\ pc' = "L101"
                  /\ gen' = [gen EXCEPT !.started = TRUE]
                  /\ page' = page
             ELSE /\ pc' = "L98"
                  /\ gen' = GenAdvance(gen, GenNextOrdinal(gen))
                  /\ page' = GenNextOrdinal(gen)
    /\ UNCHANGED <<earlier, entry_level, cfg, doc, root_level, laparams, imagewriter, rsrcmgr, device,
                   outfp, interpreter, page_rotate, calls, fp, output_string,
                   result>>

\* line 98
RotatePage ==
    /\ pc = "L98"
    /\ page_rotate' = [page_rotate EXCEPT
                         ![page] = PyMod(page_rotate[page] + cfg.rotation, FullTurn)]
    /\ pc' = "L99"
    /\ UNCHANGED <<earlier, entry_level, cfg, doc, err, root_level, laparams, imagewriter, rsrcmgr,
                   device, outfp, interpreter, gen, page, calls, fp,
                   output_string, result>>

\* line 99: the call
ProcessPage ==
    /\ pc = "L99"
    /\ calls' = Append(calls, Ev("process_page", page, page_rotate[page]))
    /\ pc' = "L99_in"
    /\ UNCHANGED <<earlier, entry_level, cfg, doc, err, root_level, laparams, imagewriter, rsrcmgr,
                   device, outfp, interpreter, gen, page, page_rotate, fp,
                   output_string, result>>

\* variant of ProcessPageEnd: device.close() sits inside the loop body
ProcessPageEnd_closesInLoop ==
    /\ pc = "L99_in"
    /\ \/ /\ Raise("PDFInterpreterError")
          /\ calls' = calls
       \/ /\ calls' = calls \o <<Ev("process_page_return", page, page_rotate[page]),
                                 Ev("close", NoPage, 0)>>
          /\ pc' = "L92_next"
          /\ err' = err
    /\ UNCHANGED <<earlier, entry_level, cfg, doc, root_level, laparams, imagewriter, rsrcmgr, device,
                   outfp, interpreter, gen, page, page_rotate, fp, output_string,
                   result>>

\* variant of ProcessPageEnd: the loop is left after the first page
ProcessPageEnd_breaks ==
    /\ pc = "L99_in"
    /\ \/ /\ Raise("PDFInterpreterError")
          /\ calls' = calls
       \/ /\ calls' = Append(calls, Ev("process_page_return", page, page_rotate[page]))
          /\ pc' = "L101"
          /\ err' = err
    /\ UNCHANGED <<earlier, entry_level, cfg, doc, root_level, laparams, imagewriter, rsrcmgr, device,
                   outfp, interpreter, gen, page, page_rotate, fp, output_string,
                   result>>

\* line 99: process_page returns or raises
ProcessPageEnd ==
    /\ pc = "L99_in"
    /\ \/ /\ Raise("PDFInterpreterError")
          /\ calls' = calls
       \/ /\ calls' = Append(calls, Ev("process_page_return", page, page_rotate[page]))
          /\ pc' = "L92_next"
          /\ err' = err
    /\ UNCHANGED <<earlier, entry_level, cfg, doc, root_level, laparams, imagewriter, rsrcmgr, device,
                   outfp, interpreter, gen, page, page_rotate, fp, output_string,
                   result>>

\* line 101
CloseDevice ==
    /\ pc = "L101"
    /\ calls' = Append(calls, Ev("close", NoPage, 0))
    /\ pc' = "returned"
    /\ UNCHANGED <<earlier, entry_level, cfg, doc, err, root_level, laparams, imagewriter, rsrcmgr,
                   device, outfp, interpreter, gen, page, page_rotate, fp,
                   output_string, result>>

(* --------------------- extract_text (lines 104-138) -------------------- *)

\* variant of RaiseInWith: the stream and the sink are closed by hand on the success path only
RaiseInWith_noUnwind(e) == pc' = "raised" /\ err' = e

\* an exception inside the with block unwinds through the with statement
RaiseInWith(e) == pc' = "T_with_exit" /\ err' = e

\* lines 119-120
DefaultLAParams ==
    /\ pc = "T119"
    /\ laparams' = IF laparams = "None" THEN "LAParams()" ELSE laparams
    /\ pc' = "T122"
    /\ UNCHANGED <<earlier, entry_level, cfg, doc, err, root_level, imagewriter, rsrcmgr, device, outfp,
                   interpreter, gen, page, page_rotate, calls, fp, output_string,
                   result>>

\* line 122
EnterWith ==
    /\ pc = "T122"
    /\ \/ /\ Raise("FileNotFoundError")
          /\ UNCHANGED <<fp, output_string, calls>>
       \/ /\ fp' = "open"
          /\ output_string' = "open"
          /\ calls' = calls \o <<Ev("open", NoPage, 0), Ev("StringIO", NoPage, 0)>>
          /\ pc' = "T123"
          /\ err' = err
    /\ UNCHANGED <<earlier, entry_level, cfg, doc, root_level, laparams, imagewriter, rsrcmgr, device,
                   outfp, interpreter, gen, page, page_rotate, result>>

\* line 123
TextMakeResourceManager ==
    /\ pc = "T123"
    /\ rsrcmgr' = [bound |-> TRUE, caching |-> PDFResourceManagerDefaultCaching]
    /\ calls' = Append(calls, Ev("PDFResourceManager", NoPage, 0))
    /\ pc' = "T124"
    /\ UNCHANGED <<earlier, entry_level, cfg, doc, err, root_level, laparams, imagewriter, device, outfp,
                   interpreter, gen, page, page_rotate, fp, output_string, result>>

\* lines 124-125
TextMakeDevice ==
    /\ pc = "T124"
    /\ \/ /\ RaiseInWith("TypeError")
          /\ UNCHANGED <<device, calls>>
       \/ /\ device' = [bound |-> TRUE, kind |-> "TextConverter",
                        outfp |-> "output_string", codec |-> "codec",
                        laparams |-> laparams, imagewriter |-> "not_passed",
                        stripcontrol |-> "not_passed", scale |-> "not_passed",
                        layoutmode |-> "not_passed"]
          /\ calls' = Append(calls, Ev("TextConverter", NoPage, 0))
          /\ pc' = "T126"
          /\ err' = err
    /\ UNCHANGED <<earlier, entry_level, cfg, doc, root_level, laparams, imagewriter, rsrcmgr,
                   outfp, interpreter, gen, page, page_rotate, fp, output_string,
                   result>>

\* line 126
TextMakeInterpreter ==
    /\ pc = "T126"
    /\ interpreter' = [bound |-> TRUE, caching |-> rsrcmgr.caching,
                       device |-> device.kind]
    /\ calls' = Append(calls, Ev("PDFPageInterpreter", NoPage, 0))
    /\ pc' = "T128"
    /\ UNCHANGED <<earlier, entry_level, cfg, doc, err, root_level, laparams, imagewriter, rsrcmgr,
                   device, outfp, gen, page, page_rotate, fp, output_string,
                   result>>

\* lines 128-135
TextGetPages ==
    /\ pc = "T128"
    /\ gen' = [UnboundGen EXCEPT !.bound = TRUE,
                                 !.pagenos = cfg.page_numbers,
                                 !.maxpages = cfg.maxpages,
                                 !.caching = cfg.caching,
                                 !.check_extractable = TRUE]
    /\ calls' = Append(calls, Ev("get_pages", NoPage, 0))
    /\ pc' = "T128_next"
    /\ UNCHANGED <<earlier, entry_level, cfg, doc, err, root_level, laparams, imagewriter, rsrcmgr,
                   device, outfp, interpreter, page, page_rotate, fp,
                   output_string, result>>

\* line 128: the for statement asks the generator for its next page
TextForNextPage ==
    /\ pc = "T128_next"
    /\ \/ /\ \E e \in GenErrors(gen) :
                 RaiseInWith(e) /\ gen' = [gen EXCEPT !.raised = e]
          /\ page' = page
       \/ /\ err' = err
          /\ IF GenNextOrdinal(gen) = StopIteration
             THEN /\ pc' = "T138"
                  /\ gen' = [gen EXCEPT !.started = TRUE]
                  /\ page' = page
             ELSE /\ pc' = "T136"
                  /\ gen' = GenAdvance(gen, GenNextOrdinal(gen))
                  /\ page' = GenNextOrdinal(gen)
    /\ UNCHANGED <<earlier, entry_level, cfg, doc, root_level, laparams, imagewriter, rsrcmgr, device,
                   outfp, interpreter, page_rotate, calls, fp, output_string,
                   result>>

\* line 136: the call
TextProcessPage ==
    /\ pc = "T136"
    /\ calls' = Append(calls, Ev("process_page", page, page_rotate[page]))
    /\ pc' = "T136_in"
    /\ UNCHANGED <<earlier, entry_level, cfg, doc, err, root_level, laparams, imagewriter, rsrcmgr,
                   device, outfp, interpreter, gen, page, page_rotate, fp,
                   output_string, result>>

\* variant of TextProcessPageEnd: the same page is handed to process_page again
TextProcessPageEnd_reprocesses ==
    /\ pc = "T136_in"
    /\ \/ /\ RaiseInWith("PDFInterpreterError")
          /\ calls' = calls
       \/ /\ calls' = Append(calls, Ev("process_page_return", page, page_rotate[page]))
          /\ pc' = "T136"
          /\ err' = err
    /\ UNCHANGED <<earlier, entry_level, cfg, doc, root_level, laparams, imagewriter, rsrcmgr, device,
                   outfp, interpreter, gen, page, page_rotate, fp, output_string,
                   result>>

\* line 136: process_page returns or raises
TextProcessPageEnd ==
    /\ pc = "T136_in"
    /\ \/ /\ RaiseInWith("PDFInterpreterError")
          /\ calls' = calls
       \/ /\ calls' = Append(calls, Ev("process_page_return", page, page_rotate[page]))
          /\ pc' = "T128_next"
          /\ err' = err
    /\ UNCHANGED <<earlier, entry_level, cfg, doc, root_level, laparams, imagewriter, rsrcmgr, device,
                   outfp, interpreter, gen, page, page_rotate, fp, output_string,
                   result>>

\* line 138: the return value is computed inside the with block
GetValue ==
    /\ pc = "T138"
    /\ result' = "text"
    /\ calls' = Append(calls, Ev("getvalue", NoPage, 0))
    /\ pc' = "T_with_exit"
    /\ UNCHANGED <<earlier, entry_level, cfg, doc, err, root_level, laparams, imagewriter, rsrcmgr,
                   device, outfp, interpreter, gen, page, page_rotate, fp,
                   output_string>>

\* line 122: leaving the with block closes the sink, then the input stream
WithExit ==
    /\ pc = "T_with_exit"
    /\ output_string' = "closed"
    /\ fp' = "closed"
    /\ calls' = calls \o <<Ev("output_string.close", NoPage, 0),
                           Ev("fp.close", NoPage, 0)>>
    /\ pc' = IF err = "none" THEN "returned" ELSE "raised"
    /\ UNCHANGED <<earlier, entry_level, cfg, doc, err, root_level, laparams, imagewriter, rsrcmgr,
                   device, outfp, interpreter, gen, page, page_rotate, result>>

(* ------------------------------- Next ---------------------------------- *)

Next ==
    \/ CheckLegacyKwarg
    \/ SetDebugLevel
    \/ MakeImageWriter
    \/ MakeResourceManager
    \/ SelectDevice
    \/ MakeInterpreter
    \/ GetPages
    \/ ForNextPage
    \/ RotatePage
    \/ ProcessPage
    \/ ProcessPageEnd
    \/ CloseDevice
    \/ DefaultLAParams
    \/ EnterWith
    \/ TextMakeResourceManager
    \/ TextMakeDevice
    \/ TextMakeInterpreter
    \/ TextGetPages
    \/ TextForNextPage
    \/ TextProcessPage
    \/ TextProcessPageEnd
    \/ GetValue
    \/ WithExit

Spec == Init /\ [][Next]_vars

SpecPages == InitPages /\ [][Next]_vars

SpecRotate == InitRotate /\ [][Next]_vars

NextPair == Next \/ NewCall

SpecPair == InitPair /\ [][NextPair]_vars

(* ------------------------ observations on a run ------------------------ *)

OpIndexes(op) == {i \in DOMAIN calls : calls[i].op = op}

CountOp(op) == Cardinality(OpIndexes(op))

PageOpIndexes == OpIndexes("process_page") \cup OpIndexes("process_page_return")

ProcessedEvents == SelectSeq(calls, LAMBDA e : e.op = "process_page")

ProcessedOrdinals == [i \in DOMAIN ProcessedEvents |-> ProcessedEvents[i].page]

IsPrefix(s, t) == Len(s) <= Len(t) /\ \A i \in DOMAIN s : s[i] = t[i]

IsFp == cfg.entry = "extract_text_to_fp"

IsText == cfg.entry = "extract_text"

(* ------------------------------- C1 ------------------------------------ *)

\* C1: in every successful run of extract_text_to_fp with a valid output
\* variant, close is invoked exactly once, after every process_page call and
\* return of the run, and every process_page lies after the get_pages request
\* that starts the page loop.
C1_CloseOnceAfterLastPage ==
    (IsFp /\ cfg.output_type \in ValidOutputTypes /\ pc = "returned") =>
        /\ CountOp("close") = 1
        /\ \A i \in PageOpIndexes : \A j \in OpIndexes("close") : i < j
        /\ \A i \in PageOpIndexes : \A j \in OpIndexes("get_pages") : j < i
        /\ calls[Len(calls)].op = "close"

C1_Witness ==
    /\ IsFp /\ pc = "returned"
    /\ cfg.output_type = "html"
    /\ CountOp("process_page") >= 2
    /\ CountOp("close") = 1

(* ------------------------------- C2 ------------------------------------ *)

\* C2: in every run of either entry point, the caching flag the Resource
\* Manager was constructed with equals the caching flag passed to get_pages.
C2_CachingFlagsAgree ==
    (rsrcmgr.bound /\ gen.bound) => rsrcmgr.caching = gen.caching

(* ------------------------------- C3 ------------------------------------ *)

\* C3: in extract_text_to_fp, once the Output Device has been constructed,
\* close has been invoked by the time an error reaches the caller.
C3_ClosedOnEveryExit ==
    (IsFp /\ device.bound /\ pc = "raised") => CountOp("close") >= 1

(* ------------------------------- C4 ------------------------------------ *)

\* C4: with an output variant outside text/xml/html/tag, extract_text_to_fp
\* fails before any collaborator is constructed or invoked.
C4_BadVariantRejectedFirst ==
    (IsFp /\ cfg.output_type \notin ValidOutputTypes) =>
        /\ calls = <<>>
        /\ ~rsrcmgr.bound
        /\ pc # "returned"

(* ------------------------------- C5 ------------------------------------ *)

InRangeFilter == cfg.page_numbers.set \cap (0..(doc.pageCount - 1))

FirstOfFilter(M) ==
    {o \in InRangeFilter : Cardinality({q \in InRangeFilter : q < o}) < M}

Ascending(S) ==
    CHOOSE s \in [1..Cardinality(S) -> S] :
        \A i, j \in 1..Cardinality(S) : i < j => s[i] < s[j]

\* C5: with a page-number filter P and a cap M > 0, the ordinals passed to
\* process_page in a successful run are, in ascending order, the first M
\* elements of P that lie within [0, pageCount).
C5_FirstMOfFilter ==
    (pc = "returned" /\ cfg.page_numbers.given /\ cfg.maxpages > 0) =>
        ProcessedOrdinals = Ascending(FirstOfFilter(cfg.maxpages))

C5_Witness ==
    /\ IsFp /\ pc = "returned"
    /\ cfg.page_numbers = [given |-> TRUE, set |-> {1, 2, 3}]
    /\ cfg.maxpages = 2
    /\ doc.pageCount = 3
    /\ ProcessedOrdinals = <<1, 2>>

(* ------------------------------- C6 ------------------------------------ *)

\* C6: in either entry point process_page is invoked on the pages in the
\* order the Document Source produced them, at most once each, a page is
\* taken up only after the previous call has returned, and a successful run
\* has processed every produced page.
C6_InProductionOrder ==
    /\ IsPrefix(ProcessedOrdinals, gen.produced)
    /\ Len(gen.produced) - Len(ProcessedOrdinals) <= 1
    /\ \A i, j \in DOMAIN ProcessedOrdinals :
           i # j => ProcessedOrdinals[i] # ProcessedOrdinals[j]
    /\ \A i, j \in OpIndexes("process_page") :
           i < j =>
               /\ calls[i + 1].op = "process_page_return"
               /\ calls[i + 1].page = calls[i].page
               /\ i + 1 < j
    /\ pc = "returned" => ProcessedOrdinals = gen.produced

C6_Witness ==
    /\ IsText /\ pc = "T136_in"
    /\ cfg.page_numbers = [given |-> TRUE, set |-> {0, 2}]
    /\ gen.produced = <<0, 2>>
    /\ ProcessedOrdinals = <<0, 2>>

(* ------------------------------- C7 ------------------------------------ *)

\* C7: with max-pages = 0 and no page-number filter, a successful run invokes
\* process_page exactly pageCount times.
C7_AllPages ==
    (pc = "returned" /\ ~cfg.page_numbers.given /\ cfg.maxpages = 0) =>
        CountOp("process_page") = doc.pageCount

C7_Witness ==
    /\ IsFp /\ pc = "returned"
    /\ ~cfg.page_numbers.given /\ cfg.maxpages = 0
    /\ doc.pageCount = MaxPageCount
    /\ CountOp("process_page") = MaxPageCount

(* ------------------------------- C8 ------------------------------------ *)

\* C8: in extract_text_to_fp the rotation a page carries when process_page is
\* invoked is (r + d) mod 360, in [0, 360), for its intrinsic rotation r and
\* the rotation delta d.
C8_RotationNormalised ==
    IsFp =>
        \A i \in OpIndexes("process_page") :
            /\ calls[i].rotate = (doc.rotate[calls[i].page] + cfg.rotation) % FullTurn
            /\ calls[i].rotate >= 0
            /\ calls[i].rotate < FullTurn

C8_Witness ==
    /\ IsFp /\ pc = "returned"
    /\ cfg.rotation = -450
    /\ \E i \in OpIndexes("process_page") :
           doc.rotate[calls[i].page] = 0 /\ calls[i].rotate = 270
    /\ \E i \in OpIndexes("process_page") :
           doc.rotate[calls[i].page] = 359 /\ calls[i].rotate = 269

(* ------------------------------- C9 ------------------------------------ *)

\* C9: applying the rotation delta leaves the rotation of the page objects
\* produced by the Document Source unchanged: after the run every page still
\* has its intrinsic rotation.
C9_PageRotationUntouched ==
    (IsFp /\ pc = "returned") => page_rotate = doc.rotate

(* ------------------------------- C10 ----------------------------------- *)

\* C10: in every successful call of extract_text the text is read from the
\* sink only after the device and the sink have been closed, and close is
\* invoked exactly once, after the last process_page.
C10_ReadAfterClose ==
    (IsText /\ pc = "returned") =>
        /\ CountOp("close") = 1
        /\ \A i \in OpIndexes("getvalue") :
               /\ \E j \in OpIndexes("close") : j < i
               /\ \E j \in OpIndexes("output_string.close") : j < i
        /\ \A i \in PageOpIndexes : \A j \in OpIndexes("close") : i < j

(* ------------------------------- C12 ----------------------------------- *)

AccessErrors == {"PDFPasswordIncorrect", "PDFTextExtractionNotAllowed"}

\* C12: when the Document Source raises a decryption or permission error
\* before its first page, the run of either entry point fails with that very
\* error and process_page is never invoked.
C12_AccessErrorPropagates ==
    (gen.raised \in AccessErrors) =>
        /\ err = gen.raised
        /\ pc \in {"raised", "T_with_exit"}
        /\ CountOp("process_page") = 0
        /\ gen.produced = <<>>

C12_Witness ==
    /\ IsFp /\ pc = "raised"
    /\ doc.pageCount > 0
    /\ gen.raised = "PDFPasswordIncorrect"
    /\ err = "PDFPasswordIncorrect"
    /\ device.bound

(* ------------------------------- C14 ----------------------------------- *)

\* C14: in extract_text the input stream opened from the path and the
\* in-memory sink are both closed on every exit path, normal or exceptional.
C14_StreamAndSinkReleased ==
    (IsText /\ pc \in {"returned", "raised"}) =>
        /\ fp # "open"
        /\ output_string # "open"
        /\ CountOp("open") = 1 =>
               /\ fp = "closed" /\ CountOp("fp.close") = 1
               /\ output_string = "closed" /\ CountOp("output_string.close") = 1

C14_Witness ==
    /\ IsText /\ pc = "raised"
    /\ err = "PDFInterpreterError"
    /\ CountOp("process_page") = 2
    /\ fp = "closed" /\ output_string = "closed"

(* ------------------------------- C15 ----------------------------------- *)

DeviceKinds == {"TextConverter", "XMLConverter", "HTMLConverter", "TagExtractor"}

DeviceIndexes == UNION {OpIndexes(k) : k \in DeviceKinds}

ImageWriterAsConfigured ==
    /\ (CountOp("ImageWriter") = 1) <=> (cfg.output_dir # "None")
    /\ CountOp("ImageWriter") <= 1
    /\ \A i \in OpIndexes("ImageWriter") : \A j \in DeviceIndexes : i < j

\* C15 as stated: for every valid variant an Image Side-Channel is constructed
\* iff an output directory is configured, before the Output Device, and when
\* constructed it is the one passed to the Output Device of the run.
C15_ImageWriterPassedToDevice ==
    (IsFp /\ cfg.output_type \in ValidOutputTypes /\ device.bound) =>
        /\ ImageWriterAsConfigured
        /\ cfg.output_dir # "None" => device.imagewriter = "ImageWriter"

\* C15 amended: as above, but it is passed to the Output Device for the
\* variants text, xml and html only; the tag device is constructed without
\* an image writer.
C15_ImageWriterPassedExceptTag ==
    (IsFp /\ cfg.output_type \in ValidOutputTypes /\ device.bound) =>
        /\ ImageWriterAsConfigured
        /\ (cfg.output_dir # "None" /\ cfg.output_type # "tag") =>
               device.imagewriter = "ImageWriter"
        /\ (cfg.output_dir = "None" /\ cfg.output_type # "tag") =>
               device.imagewriter = "None"
        /\ cfg.output_type = "tag" => device.imagewriter = "not_passed"

C15_Witness ==
    /\ IsFp /\ pc = "returned"
    /\ cfg.output_dir = "dir"
    /\ cfg.output_type = "html"
    /\ device.imagewriter = "ImageWriter"
    /\ CountOp("ImageWriter") = 1

(* ------------------------------- C16 ----------------------------------- *)

KindOfVariant ==
    [t \in ValidOutputTypes |->
        IF t = "text" THEN "TextConverter"
        ELSE IF t = "xml" THEN "XMLConverter"
        ELSE IF t = "html" THEN "HTMLConverter"
        ELSE "TagExtractor"]

\* C16: for each valid variant a run of extract_text_to_fp constructs exactly
\* one Output Device, of the kind matching the variant; strip-control goes to
\* the XML device only, scale and layout-mode to the HTML device only; and the
\* Page Interpreter is bound to that device for every page of the run.
C16_OneDeviceOfTheVariant ==
    (IsFp /\ cfg.output_type \in ValidOutputTypes /\ device.bound) =>
        /\ Cardinality(DeviceIndexes) = 1
        /\ \A i \in DeviceIndexes : calls[i].op = KindOfVariant[cfg.output_type]
        /\ device.kind = KindOfVariant[cfg.output_type]
        /\ (device.stripcontrol = "strip_control") <=> (cfg.output_type = "xml")
        /\ (device.stripcontrol # "strip_control") => (device.stripcontrol = "not_passed")
        /\ (device.scale = "scale") <=> (cfg.output_type = "html")
        /\ (device.layoutmode = "layoutmode") <=> (cfg.output_type = "html")
        /\ (CountOp("process_page") > 0) =>
               (interpreter.bound /\ interpreter.device = device.kind)
        /\ \A i \in OpIndexes("process_page") : \A j \in DeviceIndexes : j < i

C16_Witness ==
    /\ IsFp /\ pc = "returned"
    /\ cfg.output_type = "xml"
    /\ device.kind = "XMLConverter"
    /\ device.stripcontrol = "strip_control"
    /\ CountOp("process_page") = 2

(* ------------------------------- C19 ----------------------------------- *)

\* C19: with an output variant that is none of the four valid values no
\* Output Device is ever bound, the run fails where the Page Interpreter
\* would be constructed, and get_pages, process_page and close are never
\* invoked, so nothing reaches the sink.
C19_BadVariantFailsAtInterpreter ==
    (IsFp /\ cfg.output_type \notin ValidOutputTypes) =>
        /\ ~device.bound
        /\ ~interpreter.bound
        /\ ~gen.bound
        /\ DeviceIndexes = {}
        /\ CountOp("PDFPageInterpreter") = 0
        /\ CountOp("get_pages") = 0
        /\ CountOp("process_page") = 0
        /\ CountOp("close") = 0
        /\ pc \in {"L54", "L61", "L67", "L71", "L73", "L91", "raised"}
        /\ (pc = "raised" /\ cfg.legacy = "absent") =>
               (err = "UnboundLocalError" /\ rsrcmgr.bound)

C19_Witness ==
    /\ IsFp /\ pc = "raised"
    /\ cfg.output_type = "pdf"
    /\ cfg.output_dir = "dir"
    /\ err = "UnboundLocalError"
    /\ rsrcmgr.bound /\ imagewriter = "ImageWriter"

(* ------------------------------- C17 ----------------------------------- *)

\* C17: with the keyword '_py2_no_more_posargs' present, whatever its value,
\* extract_text_to_fp fails before any collaborator is constructed and before
\* the log level or the sink is touched; with the keyword absent this check
\* never fails the call.
C17_LegacyKwargRejectedFirst ==
    /\ (IsFp /\ cfg.legacy # "absent") =>
           /\ pc \in {"L54", "raised"}
           /\ pc = "raised" => err = "DeprecationWarning"
           /\ calls = <<>>
           /\ root_level = entry_level
           /\ outfp = cfg.outfp
           /\ imagewriter = "unbound"
           /\ ~rsrcmgr.bound /\ ~device.bound /\ ~interpreter.bound /\ ~gen.bound
    /\ (IsFp /\ cfg.legacy = "absent") =>
           /\ err # "DeprecationWarning"
           /\ pc = "raised" => rsrcmgr.bound

C17_Witness ==
    /\ IsFp /\ pc = "raised"
    /\ cfg.legacy = "None"
    /\ cfg.debug
    /\ cfg.output_dir = "dir"
    /\ err = "DeprecationWarning"

(* ------------------------------- C18 ----------------------------------- *)

\* C18: a run of extract_text_to_fp leaves the process-wide root log level
\* as it found it, whatever the debug flag and however the run ends.
C18_RootLevelRestored ==
    (IsFp /\ pc \in {"returned", "raised"}) => root_level = entry_level

(* --------------------------- C11 and C13 ------------------------------- *)

PageCalls(cs) ==
    SelectSeq(cs, LAMBDA e : e.op \in {"process_page", "process_page_return"})

DeviceArguments(d) ==
    [kind |-> d.kind, codec |-> d.codec, laparams |-> d.laparams,
     imagewriter |-> WithDefault(d.imagewriter), stripcontrol |-> d.stripcontrol,
     scale |-> d.scale, layoutmode |-> d.layoutmode]

GetPagesArguments(g) ==
    [pagenos |-> g.pagenos, maxpages |-> g.maxpages, caching |-> g.caching,
     check_extractable |-> g.check_extractable]

Operations(rm, d, g, cs) ==
    [rsrcmgr_caching |-> rm.caching, device |-> DeviceArguments(d),
     get_pages |-> GetPagesArguments(g), pages |-> PageCalls(cs)]

BothReturned == earlier.done /\ earlier.pc = "returned" /\ pc = "returned"

\* extract_text with default layout parameters, then extract_text_to_fp with
\* variant text, a default-constructed LAParams and the same other arguments
TextThenFpText ==
    /\ BothReturned
    /\ earlier.cfg.entry = "extract_text"
    /\ earlier.cfg.laparams = "None"
    /\ IsFp
    /\ cfg.output_type = "text"
    /\ cfg.laparams = "LAParams()"
    /\ cfg.output_dir = "None"
    /\ cfg.rotation = 0
    /\ cfg.disable_caching = ~earlier.cfg.caching
    /\ cfg.maxpages = earlier.cfg.maxpages
    /\ cfg.page_numbers = earlier.cfg.page_numbers

\* C11: extract_text with default Layout Parameters and extract_text_to_fp
\* with variant text and the same arguments build the Resource Manager with
\* the same caching flag, the device with the same arguments, call get_pages
\* with the same arguments and process the same pages in the same order.
C11_SameOperations ==
    TextThenFpText =>
        Operations(earlier.rsrcmgr, earlier.device, earlier.gen, earlier.calls)
            = Operations(rsrcmgr, device, gen, calls)

\* two runs of extract_text_to_fp with variant tag that differ in laparams only
TagRunsDifferingInLaparams ==
    /\ BothReturned
    /\ earlier.cfg.entry = "extract_text_to_fp" /\ IsFp
    /\ cfg.output_type = "tag"
    /\ cfg = [earlier.cfg EXCEPT !.laparams = cfg.laparams]

\* C13: two runs with variant tag that differ only in the Layout Parameters
\* construct the same device with the same arguments and perform the same
\* collaborator operations.
C13_TagIgnoresLaparams ==
    TagRunsDifferingInLaparams =>
        /\ device = earlier.device
        /\ calls = earlier.calls
        /\ Operations(earlier.rsrcmgr, earlier.device, earlier.gen, earlier.calls)
               = Operations(rsrcmgr, device, gen, calls)

C13_Witness ==
    /\ TagRunsDifferingInLaparams
    /\ earlier.cfg.laparams = "None"
    /\ cfg.laparams = "LAParams"
    /\ CountOp("process_page") = 2
    /\ device.kind = "TagExtractor"

\* C11 with both caching arguments left at their defaults
C11_AtDefaultCaching ==
    (TextThenFpText /\ earlier.cfg.caching) =>
        Operations(earlier.rsrcmgr, earlier.device, earlier.gen, earlier.calls)
            = Operations(rsrcmgr, device, gen, calls)

====
